---------------------------- MODULE Spec2Model ----------------------------
(***************************************************************************)
(* A model of cirq_superstaq/custom_gates.py: the gate values              *)
(* FermionicSWAPGate, ZXPowGate, AceCR, Barrier and ParallelGates, their   *)
(* constructors and the methods that compute on them.                      *)
(*                                                                         *)
(* One object is followed from its constructor call (args) through the     *)
(* method calls made on it.  Gate values are immutable, so the state is    *)
(* the object, the last call, its result, and the frame of a suspended     *)
(* generator (the two _decompose_ methods that yield).                     *)
(*                                                                         *)
(* Units.  FermionicSWAPGate angles are integers counting steps of         *)
(* pi / Pi radians, so pi is the integer Pi and the period 2*pi is 2 * Pi. *)
(* Rphi angles are whole radians (0 and 1, enough to tell two rotations    *)
(* apart).  Exponents are rationals [num, den].  Text is a sequence of     *)
(* code points.                                                            *)
(***************************************************************************)
EXTENDS Integers, Sequences, FiniteSets, TLC

VARIABLES pc, args, self, call, ret, frame

vars == <<pc, args, self, call, ret, frame>>

(***************************************************************************)
(* Bounds of the model.                                                    *)
(***************************************************************************)
\* longest component sequence built from the whole gate universe
MaxLen == 3
\* widest composite (built from one repeated single-qubit rotation)
MaxWide == 11
\* pi, in angle steps
Pi == 4
\* largest Barrier
MaxBarrier == 3
\* most copies in a ParallelRphi built on its own
MaxCopies == 3

(***************************************************************************)
(* Gate values.                                                            *)
(***************************************************************************)
Gate(kind, a, b, n, pol, comps) ==
    [kind |-> kind, a |-> a, b |-> b, n |-> n, pol |-> pol, comps |-> comps]

None == Gate("None", 0, 0, 0, "", <<>>)

Rat(num, den) == [num |-> num, den |-> den]

\* cirq.X, the bit flip
X == Gate("X", 0, 0, 1, "", <<>>)

\* cirq.MeasurementGate on n qubits
Measure(n) == Gate("MeasurementGate", 0, 0, n, "", <<>>)

\* Rphi(phi, theta), a PhasedXPowGate on one qubit
Rphi(phi, theta) == Gate("Rphi", phi, theta, 1, "", <<>>)

\* ParallelRphi(phi, theta, num_copies)
ParallelRphi(phi, theta, num_copies) ==
    Gate("ParallelRphi", phi, theta, num_copies, "", <<>>)

\* ZXPowGate(exponent = e), e a rational
ZXPowGate(e) == Gate("ZXPowGate", e.num, e.den, 2, "", <<>>)

\* CR = ZX = ZXPowGate(): exponent 1
CR == ZXPowGate(Rat(1, 1))

\* the value a Barrier(n) is
BarrierGate(n) == Gate("Barrier", 0, 0, n, "", <<>>)

\* the value an AceCR(polarity) is
AceCRGate(polarity) == Gate("AceCR", 0, 0, 2, polarity, <<>>)

\* the value ParallelGates.__init__ builds from its component_gates
ParallelGatesGate(component_gates) ==
    Gate("ParallelGates", 0, 0, 0, "", component_gates)

(***************************************************************************)
(* Results of calls: a returned value or a raised exception.               *)
(***************************************************************************)
Result(kind, gate, int, seq) ==
    [kind |-> kind, gate |-> gate, int |-> int, seq |-> seq]

NoResult == Result("none", None, 0, <<>>)
ValueError == Result("ValueError", None, 0, <<>>)
AssertionError == Result("AssertionError", None, 0, <<>>)
NotImplemented == Result("NotImplemented", None, 0, <<>>)
ReturnGate(g) == Result("gate", g, 0, <<>>)
ReturnInt(i) == Result("int", None, i, <<>>)
ReturnGateAndIndex(g, i) == Result("gate_and_index", g, i, <<>>)
\* a class (a constructor), by its name
ReturnClass(name) == Result("class", None, 0, <<name>>)
ReturnNone == Result("None", None, 0, <<>>)
TypeError == Result("TypeError", None, 0, <<>>)
\* a field mapping (a dict)
ReturnDict(d) == Result("dict", None, 0, <<d>>)

Call(name, i, qubits, flag, exponent) ==
    [name |-> name, i |-> i, qubits |-> qubits, flag |-> flag,
     exponent |-> exponent, cirq_type |-> ""]

\* a call whose argument is a type tag
CallWithType(name, cirq_type, flag) ==
    [name |-> name, i |-> 0, qubits |-> <<>>, flag |-> flag,
     exponent |-> Rat(0, 1), cirq_type |-> cirq_type]

NoCall == Call("", 0, <<>>, FALSE, Rat(0, 1))

Frame(fn, k, qubits) == [fn |-> fn, k |-> k, qubits |-> qubits]

NoFrame == Frame("", 0, <<>>)

(***************************************************************************)
(* Sequence helpers (Python slicing).                                      *)
(***************************************************************************)
Min(S) == CHOOSE x \in S : \A y \in S : x <= y

\* s[:n]
Take(s, n) == SubSeq(s, 1, IF n < Len(s) THEN n ELSE Len(s))

\* s[n:]
Drop(s, n) == SubSeq(s, (IF n < Len(s) THEN n ELSE Len(s)) + 1, Len(s))

(***************************************************************************)
(* Gate protocols.                                                         *)
(***************************************************************************)
RECURSIVE num_qubits(_)
RECURSIVE SumQubits(_)

\* sum(map(cirq.num_qubits, gates))
SumQubits(gates) ==
    IF gates = <<>> THEN 0
    ELSE num_qubits(Head(gates)) + SumQubits(Tail(gates))

\* cirq.num_qubits(gate): each class's _num_qubits_
num_qubits(gate) ==
    CASE gate.kind = "ParallelGates" -> SumQubits(gate.comps)
      [] gate.kind \in {"FermionicSWAPGate", "ZXPowGate", "AceCR"} -> 2
      [] OTHER -> gate.n

\* cirq.is_measurement(gate)
is_measurement(gate) == gate.kind = "MeasurementGate"

\* isinstance(gate, cirq.InterchangeableQubitsGate)
IsInterchangeable(gate) ==
    gate.kind \in {"FermionicSWAPGate", "ParallelRphi", "ParallelGates"}

(***************************************************************************)
(* ParallelGates.                                                          *)
(***************************************************************************)
\* ParallelGates.__init__ testing its first component only
InitChecksFirstOnly(component_gates) ==
    IF component_gates # <<>> /\ is_measurement(component_gates[1])
    THEN ValueError
    ELSE ReturnGate(ParallelGatesGate(component_gates))

\* ParallelGates.__init__: the object, or the ValueError it raises
ParallelGatesNew(component_gates) ==
    IF \E k \in 1..Len(component_gates) : is_measurement(component_gates[k])
    THEN ValueError
    ELSE ReturnGate(ParallelGatesGate(component_gates))

RECURSIVE ScanFrom(_, _, _)
\* the loop of qubit_index_to_gate_and_index, from component k on
ScanFrom(gates, k, index) ==
    IF k > Len(gates) THEN ValueError
    ELSE IF num_qubits(gates[k]) > index /\ index >= 0
         THEN ReturnGateAndIndex(gates[k], index)
         ELSE ScanFrom(gates, k + 1, index - num_qubits(gates[k]))

\* qubit_index_to_gate_and_index without the lower bound of its test
GateAndIndexNoLowerBound(gates, index) ==
    LET RECURSIVE Scan(_, _)
        Scan(k, i) ==
            IF k > Len(gates) THEN ValueError
            ELSE IF num_qubits(gates[k]) > i
                 THEN ReturnGateAndIndex(gates[k], i)
                 ELSE Scan(k + 1, i - num_qubits(gates[k]))
    IN Scan(1, index)

\* ParallelGates.qubit_index_to_gate_and_index(index)
qubit_index_to_gate_and_index(gates, index) == ScanFrom(gates, 1, index)

\* the last position holding an equal gate
LastInstance(gates, gate) ==
    CHOOSE k \in 1..Len(gates) :
        /\ gates[k] = gate
        /\ \A l \in (k + 1)..Len(gates) : gates[l] # gate

\* component_gates.index(gate): the first position holding an equal gate
FirstInstance(gates, gate) ==
    Min({k \in 1..Len(gates) : gates[k] = gate})

\* sum(map(cirq.num_qubits, component_gates[:first_instance])), with
\* first_instance counted from 0: the qubits before position k (from 1)
QubitsBefore(gates, k) == SumQubits(Take(gates, k - 1))

RECURSIVE EquivalenceGroupKey(_, _)
RECURSIVE LocalKey(_, _)

\* indexed_gate.qubit_index_to_equivalence_group_key(i): ParallelGates' own
\* for a nested ParallelGates, InterchangeableQubitsGate's default (0) else
LocalKey(gate, i) ==
    IF gate.kind = "ParallelGates"
    THEN EquivalenceGroupKey(gate.comps, i).int
    ELSE 0

\* the key of a single-qubit component taken as its own index
SingleQubitKeyIsIndex(gates, gate, index) == index

\* the single-qubit branch of qubit_index_to_equivalence_group_key
SingleQubitKey(gates, gate, index) ==
    QubitsBefore(gates, FirstInstance(gates, gate))

\* the multi-qubit branch returning the local index of the earlier qubit
MultiQubitKeyLocal(gate, index_in_gate, index) ==
    IF IsInterchangeable(gate)
    THEN LET gate_key == LocalKey(gate, index_in_gate)
             same == {i \in 0..(index_in_gate - 1) : LocalKey(gate, i) = gate_key}
         IN  IF same # {} THEN Min(same) ELSE index
    ELSE index

\* the multi-qubit branch of qubit_index_to_equivalence_group_key
MultiQubitKey(gate, index_in_gate, index) ==
    IF IsInterchangeable(gate)
    THEN LET gate_key == LocalKey(gate, index_in_gate)
             same == {i \in 0..(index_in_gate - 1) : LocalKey(gate, i) = gate_key}
         IN  IF same # {} THEN index - index_in_gate + Min(same) ELSE index
    ELSE index

\* ParallelGates.qubit_index_to_equivalence_group_key(index)
EquivalenceGroupKey(gates, index) ==
    LET found == qubit_index_to_gate_and_index(gates, index)
    IN  IF found.kind = "ValueError" THEN ValueError
        ELSE IF num_qubits(found.gate) = 1
             THEN ReturnInt(SingleQubitKey(gates, found.gate, index))
             ELSE ReturnInt(MultiQubitKey(found.gate, found.int, index))

\* an operation: a gate applied to qubits
Op(gate, qubits) == [gate |-> gate, qubits |-> qubits]

\* the generator never dropping the qubits it has handed out
ResumeKeepsQubits(gates, k, qubits) ==
    IF k + 1 > Len(gates)
    THEN [done |-> TRUE, k |-> k, qubits |-> qubits, op |-> Op(None, <<>>)]
    ELSE [done |-> FALSE, k |-> k + 1, qubits |-> qubits,
          op |-> Op(gates[k + 1], Take(qubits, num_qubits(gates[k + 1])))]

\* the generator of ParallelGates._decompose_ resuming after its k-th yield
\* with `qubits` left (k = 0: not started): the next frame and the operation
\* yielded, or done
ParallelGatesResume(gates, k, qubits) ==
    LET rest == IF k = 0 THEN qubits ELSE Drop(qubits, num_qubits(gates[k]))
    IN  IF k + 1 > Len(gates)
        THEN [done |-> TRUE, k |-> k, qubits |-> rest, op |-> Op(None, <<>>)]
        ELSE [done |-> FALSE, k |-> k + 1, qubits |-> rest,
              op |-> Op(gates[k + 1], Take(rest, num_qubits(gates[k + 1])))]

(***************************************************************************)
(* ParallelGates._circuit_diagram_info_.                                   *)
(***************************************************************************)
\* ord("_")
Underscore == 95
\* ord("0"), the first decimal digit str() writes
DigitZero == 48
\* ord("₁"), SUBSCRIPT ONE
SubscriptOne == 8321

RECURSIVE StrOfNat(_)
\* str(n) for n >= 0: the decimal digits, as code points
StrOfNat(n) ==
    IF n < 10 THEN <<DigitZero + n>>
    ELSE StrOfNat(n \div 10) \o <<DigitZero + (n % 10)>>

\* int(c) for a decimal digit c
IntOfChar(c) == c - DigitZero

\* index_str for the component enumerate() numbers i (from 0)
IndexStr(i, use_unicode_characters) ==
    IF use_unicode_characters
    THEN [k \in 1..Len(StrOfNat(i)) |-> SubscriptOne + IntOfChar(StrOfNat(i)[k])]
    ELSE <<Underscore>> \o StrOfNat(i + 1)

\* a wire symbol: the component's own text (a name and its two parameters)
\* followed by the subscripts appended to it
Symbol(name, a, b, suffix) ==
    [name |-> name, a |-> a, b |-> b, suffix |-> suffix]

RECURSIVE WireSymbols(_, _)
RECURSIVE DiagramFrom(_, _, _)

\* the loop of _circuit_diagram_info_ from component k on: the symbols of
\* each component, each with the component's index_str appended
DiagramFrom(gates, k, unicode) ==
    IF k > Len(gates) THEN <<>>
    ELSE LET base == WireSymbols(gates[k], unicode)
             index_str == IndexStr(k - 1, unicode)
         IN  [w \in 1..Len(base) |->
                 Symbol(base[w].name, base[w].a, base[w].b,
                        base[w].suffix \o index_str)]
             \o DiagramFrom(gates, k + 1, unicode)

\* cirq.circuit_diagram_info(gate, args).wire_symbols, one per qubit
WireSymbols(gate, unicode) ==
    CASE gate.kind = "ParallelGates" -> DiagramFrom(gate.comps, 1, unicode)
      [] gate.kind = "FermionicSWAPGate" ->
            [w \in 1..2 |-> Symbol("FermionicSWAP", gate.a, 0, <<>>)]
      [] gate.kind = "ZXPowGate" ->
            <<Symbol("Z", 0, 0, <<>>), Symbol("X", 0, 0, <<>>)>>
      [] gate.kind = "AceCR" ->
            <<Symbol("AceCR" \o gate.pol \o "(Z side)", 0, 0, <<>>),
              Symbol("AceCR" \o gate.pol \o "(X side)", 0, 0, <<>>)>>
      [] gate.kind = "Barrier" ->
            [w \in 1..gate.n |->
                Symbol(IF unicode THEN "BOX VERTICAL" ELSE "|", 0, 0, <<>>)]
      [] gate.kind = "Rphi" -> <<Symbol("Rphi", gate.a, gate.b, <<>>)>>
      [] gate.kind = "ParallelRphi" ->
            [w \in 1..gate.n |->
                IF w = 1 THEN Symbol("Rphi", gate.a, gate.b, <<>>)
                ELSE Symbol("#", w, 0, <<>>)]
      [] OTHER -> [w \in 1..gate.n |-> Symbol(gate.kind, 0, 0, <<>>)]

\* ParallelGates._circuit_diagram_info_(args).wire_symbols
circuit_diagram_info(gates, unicode) == DiagramFrom(gates, 1, unicode)

(***************************************************************************)
(* FermionicSWAPGate.                                                      *)
(***************************************************************************)
\* np.round(num / den), den > 0: to the nearest integer, a tie to the even one
RoundHalfEven(num, den) ==
    LET q == num \div den
        r == num % den
    IN  IF 2 * r < den THEN q
        ELSE IF 2 * r > den THEN q + 1
        ELSE IF q % 2 = 0 THEN q ELSE q + 1

\* an angle stored as given
CanonicalizeSkipped(value) == value

\* cirq.ops.fsim_gate._canonicalize(value) for a number:
\* value - period * np.round(value / period), period = 2 * np.pi
Canonicalize(value) == value - (2 * Pi) * RoundHalfEven(value, 2 * Pi)

\* FermionicSWAPGate.__init__(theta)
FermionicSWAPGateNew(theta) ==
    Gate("FermionicSWAPGate", Canonicalize(theta), 0, 2, "", <<>>)

\* `exponent in (-1, 0, 1)` for a rational exponent
InMinusOneZeroOne(exponent) ==
    \E e \in {-1, 0, 1} : exponent.num = e * exponent.den

\* __pow__ taking every whole exponent
PowAnyInteger(gate, exponent) ==
    IF exponent.num % exponent.den = 0
    THEN ReturnGate(FermionicSWAPGateNew((exponent.num \div exponent.den) * gate.a))
    ELSE NotImplemented

\* FermionicSWAPGate.__pow__(exponent)
FermionicSWAPGatePow(gate, exponent) ==
    IF InMinusOneZeroOne(exponent)
    THEN ReturnGate(FermionicSWAPGateNew((exponent.num \div exponent.den) * gate.a))
    ELSE NotImplemented

(***************************************************************************)
(* ZXPowGate, AceCR, Barrier.                                              *)
(***************************************************************************)
\* EigenGate.__pow__: the exponents multiply
ZXPow(gate, e) == ZXPowGate(Rat(gate.a * e.num, gate.b * e.den))

\* AceCR.__init__(polarity): the object, or the failed assertion
AceCRNew(polarity) ==
    IF polarity \in {"+-", "-+"} THEN ReturnGate(AceCRGate(polarity))
    ELSE AssertionError

\* the three yields with one sign for both polarities
AceCRYieldOneSign(polarity, k, qubits) ==
    CASE k = 1 -> Op(ZXPow(CR, Rat(1, 4)), qubits)
      [] k = 2 -> Op(X, <<qubits[1]>>)
      [] OTHER -> Op(ZXPow(CR, Rat(-1, 4)), qubits)

\* the k-th operation AceCR._decompose_(qubits) yields
AceCRYield(polarity, k, qubits) ==
    CASE k = 1 -> Op(ZXPow(CR, IF polarity = "+-" THEN Rat(1, 4) ELSE Rat(-1, 4)),
                     qubits)
      [] k = 2 -> Op(X, <<qubits[1]>>)
      [] OTHER -> Op(ZXPow(CR, IF polarity = "+-" THEN Rat(-1, 4) ELSE Rat(1, 4)),
                     qubits)

\* a Barrier that decomposes into nothing
BarrierDecomposeEmpty(gate, qubits) == Result("ops", None, 0, <<>>)

\* Barrier._decompose_(qubits)
BarrierDecompose(gate, qubits) == NotImplemented

(***************************************************************************)
(* The type registry.                                                      *)
(***************************************************************************)
\* a resolver that has no entry for ParallelRphi
ResolverWithoutParallelRphi(cirq_type) ==
    IF cirq_type \in {"FermionicSWAPGate", "Barrier", "ZXPowGate", "AceCR",
                      "ParallelGates", "MSGate", "Rphi"}
    THEN ReturnClass(cirq_type)
    ELSE ReturnNone

\* custom_resolver(cirq_type): the class of that name, or None
custom_resolver(cirq_type) ==
    CASE cirq_type = "FermionicSWAPGate" -> ReturnClass("FermionicSWAPGate")
      [] cirq_type = "Barrier" -> ReturnClass("Barrier")
      [] cirq_type = "ZXPowGate" -> ReturnClass("ZXPowGate")
      [] cirq_type = "AceCR" -> ReturnClass("AceCR")
      [] cirq_type = "ParallelGates" -> ReturnClass("ParallelGates")
      [] cirq_type = "MSGate" -> ReturnClass("MSGate")
      [] cirq_type = "Rphi" -> ReturnClass("Rphi")
      [] cirq_type = "ParallelRphi" -> ReturnClass("ParallelRphi")
      [] OTHER -> ReturnNone

(***************************************************************************)
(* Export to a field mapping and reconstruction from it.                   *)
(***************************************************************************)
\* a field mapping: the type tag, the names of the fields present and their
\* values (a field that is absent has the value given here)
Dict(cirq_type) ==
    [cirq_type |-> cirq_type, keys |-> {}, phi |-> 0, theta |-> 0,
     exponent |-> Rat(1, 1), global_shift |-> 0, polarity |-> "",
     num_qubits |-> 0, num_copies |-> 0, component_gates |-> <<>>]

RECURSIVE json_dict(_)
\* gate._json_dict_(), the gates inside it exported in turn:
\* cirq.protocols.obj_to_dict_helper(self, [names]) gives the class name as
\* cirq_type and each named attribute
json_dict(gate) ==
    CASE gate.kind = "FermionicSWAPGate" ->
            [Dict(gate.kind) EXCEPT !.keys = {"theta"}, !.theta = gate.a]
      [] gate.kind = "ZXPowGate" ->
            [Dict(gate.kind) EXCEPT !.keys = {"exponent", "global_shift"},
                                    !.exponent = Rat(gate.a, gate.b)]
      [] gate.kind = "AceCR" ->
            [Dict(gate.kind) EXCEPT !.keys = {"polarity"}, !.polarity = gate.pol]
      [] gate.kind = "Barrier" ->
            [Dict(gate.kind) EXCEPT !.keys = {"num_qubits"}, !.num_qubits = gate.n]
      [] gate.kind = "Rphi" ->
            [Dict(gate.kind) EXCEPT !.keys = {"phi", "theta"},
                                    !.phi = gate.a, !.theta = gate.b]
      [] gate.kind = "ParallelRphi" ->
            [Dict(gate.kind) EXCEPT !.keys = {"phi", "theta", "num_copies"},
                                    !.phi = gate.a, !.theta = gate.b,
                                    !.num_copies = gate.n]
      [] gate.kind = "ParallelGates" ->
            [Dict(gate.kind) EXCEPT
                !.keys = {"component_gates"},
                !.component_gates =
                    [k \in 1..Len(gate.comps) |-> json_dict(gate.comps[k])]]
      [] OTHER -> Dict(gate.kind)

\* a _from_json_dict_ taking component_gates and nothing else
FromJsonDictNoKwargs(keys, component_gates) ==
    IF keys # {"component_gates"} THEN TypeError
    ELSE ParallelGatesNew(component_gates)

\* ParallelGates._from_json_dict_(component_gates, **kwargs), called with
\* the fields `keys`
ParallelGatesFromJsonDict(keys, component_gates) ==
    IF "component_gates" \notin keys THEN TypeError
    ELSE ParallelGatesNew(component_gates)

\* cls(**fields): the fields must be parameters of __init__, and the
\* parameters without a default must be given
Keywords(keys, required, optional, result) ==
    IF required \subseteq keys /\ keys \subseteq (required \cup optional)
    THEN result ELSE TypeError

RECURSIVE Reconstruct(_)
\* a field mapping read back: the class custom_resolver gives for its
\* cirq_type is called with the fields (its _from_json_dict_ if it has one,
\* the class itself otherwise), the mappings inside it read back first;
\* None when custom_resolver has no class for it
Reconstruct(d) ==
    LET cls == custom_resolver(d.cirq_type)
        inner == [k \in 1..Len(d.component_gates) |->
                     Reconstruct(d.component_gates[k])]
    IN  IF cls = ReturnNone THEN ReturnNone
        ELSE CASE cls.seq[1] = "FermionicSWAPGate" ->
                    Keywords(d.keys, {"theta"}, {},
                             ReturnGate(FermionicSWAPGateNew(d.theta)))
               [] cls.seq[1] = "ZXPowGate" ->
                    Keywords(d.keys, {}, {"exponent", "global_shift"},
                             ReturnGate(ZXPowGate(d.exponent)))
               [] cls.seq[1] = "AceCR" ->
                    Keywords(d.keys, {"polarity"}, {}, AceCRNew(d.polarity))
               [] cls.seq[1] = "Barrier" ->
                    IF "num_qubits" \in d.keys
                    THEN ReturnGate(BarrierGate(d.num_qubits)) ELSE TypeError
               [] cls.seq[1] = "Rphi" ->
                    Keywords(d.keys, {"phi", "theta"}, {},
                             ReturnGate(Rphi(d.phi, d.theta)))
               [] cls.seq[1] = "ParallelRphi" ->
                    Keywords(d.keys, {"phi", "theta", "num_copies"}, {},
                             ReturnGate(ParallelRphi(d.phi, d.theta, d.num_copies)))
               [] cls.seq[1] = "ParallelGates" ->
                    IF \E k \in 1..Len(inner) : inner[k].kind # "gate"
                    THEN TypeError
                    ELSE ParallelGatesFromJsonDict(d.keys,
                            [k \in 1..Len(inner) |-> inner[k].gate])
               [] OTHER -> TypeError

(***************************************************************************)
(* The inputs.                                                             *)
(***************************************************************************)
\* the gates a ParallelGates is built from: two different rotations, a
\* two-qubit gate with and one without interchangeable qubits, three copies
\* of a rotation, a nested ParallelGates whose first and last qubit are
\* interchangeable, the empty ParallelGates (no qubits), and a measurement
Gates ==
    { Rphi(0, 1), Rphi(1, 1),
      FermionicSWAPGateNew(1),
      CR,
      ParallelRphi(0, 1, 3),
      ParallelGatesGate(<<Rphi(0, 1), Rphi(1, 1), Rphi(0, 1)>>),
      ParallelGatesGate(<<>>),
      Measure(1) }

ComponentLists ==
    UNION {[1..n -> Gates] : n \in 0..MaxLen}
    \cup {[k \in 1..n |-> Rphi(0, 1)] : n \in (MaxLen + 1)..MaxWide}

Polarities == {"+-", "-+", "++", "--", "+", ""}

Angles == (-3 * Pi)..(3 * Pi)

Exponents ==
    {Rat(e, 1) : e \in -2..2} \cup {Rat(1, 2), Rat(-1, 2), Rat(2, 2), Rat(-3, 3)}

Ctor(cls, gates, theta, polarity, n) ==
    [cls |-> cls, gates |-> gates, theta |-> theta, polarity |-> polarity, n |-> n,
     phi |-> 0, exponent |-> Rat(1, 1)]

\* a constructor call with the arguments phi and exponent
CtorWith(cls, phi, theta, n, exponent) ==
    [cls |-> cls, gates |-> <<>>, theta |-> theta, polarity |-> "", n |-> n,
     phi |-> phi, exponent |-> exponent]

Args ==
    {Ctor("ParallelGates", gs, 0, "", 0) : gs \in ComponentLists}
    \cup {Ctor("FermionicSWAPGate", <<>>, t, "", 0) : t \in Angles}
    \cup {Ctor("AceCR", <<>>, 0, p, 0) : p \in Polarities}
    \cup {Ctor("Barrier", <<>>, 0, "", n) : n \in 1..MaxBarrier}
    \cup {CtorWith("Rphi", phi, theta, 1, Rat(1, 1)) :
             phi \in {0, 1}, theta \in {0, 1}}
    \cup {CtorWith("ParallelRphi", phi, 1, n, Rat(1, 1)) :
             phi \in {0, 1}, n \in 1..MaxCopies}
    \cup {CtorWith("ZXPowGate", 0, 0, 2, e) :
             e \in {Rat(1, 1), Rat(1, 4), Rat(-1, 4), Rat(1, 2)}}

\* the names looked up: those of the classes of this module, cirq's own
\* CZPowGate, a name in the wrong case and the empty name
TypeTags ==
    {"FermionicSWAPGate", "Barrier", "ZXPowGate", "AceCR", "ParallelGates",
     "MSGate", "Rphi", "ParallelRphi", "CZPowGate", "fermionicswapgate", ""}

\* n distinct qubits, in ascending and in descending order
QubitOrders(n) == {[k \in 1..n |-> k], [k \in 1..n |-> n + 1 - k]}

(***************************************************************************)
(* The state machine.                                                      *)
(***************************************************************************)
Init ==
    /\ pc = "new"
    /\ args \in Args
    /\ self = None
    /\ call = NoCall
    /\ ret = NoResult
    /\ frame = NoFrame

\* what a constructor leaves: the object, or the exception and no object
Constructed(r) ==
    /\ call' = Call("__init__", 0, <<>>, FALSE, Rat(0, 1))
    /\ IF r.kind = "gate"
       THEN pc' = "ready" /\ self' = r.gate /\ ret' = NoResult
       ELSE pc' = "raised" /\ self' = None /\ ret' = r
    /\ UNCHANGED <<args, frame>>

ParallelGates_init ==
    /\ pc = "new" /\ args.cls = "ParallelGates"
    /\ Constructed(ParallelGatesNew(args.gates))

FermionicSWAPGate_init ==
    /\ pc = "new" /\ args.cls = "FermionicSWAPGate"
    /\ Constructed(ReturnGate(FermionicSWAPGateNew(args.theta)))

AceCR_init ==
    /\ pc = "new" /\ args.cls = "AceCR"
    /\ Constructed(AceCRNew(args.polarity))

Barrier_init ==
    /\ pc = "new" /\ args.cls = "Barrier"
    /\ Constructed(ReturnGate(BarrierGate(args.n)))

Rphi_init ==
    /\ pc = "new" /\ args.cls = "Rphi"
    /\ Constructed(ReturnGate(Rphi(args.phi, args.theta)))

ParallelRphi_init ==
    /\ pc = "new" /\ args.cls = "ParallelRphi"
    /\ Constructed(ReturnGate(ParallelRphi(args.phi, args.theta, args.n)))

ZXPowGate_init ==
    /\ pc = "new" /\ args.cls = "ZXPowGate"
    /\ Constructed(ReturnGate(ZXPowGate(args.exponent)))

\* a method of the object can be called: it exists and no generator of it is
\* suspended
Callable(kind) == pc = "ready" /\ self.kind = kind /\ frame = NoFrame

Indices == -2..(num_qubits(self) + 1)

ParallelGates_qubit_index_to_gate_and_index ==
    /\ Callable("ParallelGates")
    /\ \E index \in Indices :
          /\ call' = Call("qubit_index_to_gate_and_index", index, <<>>, FALSE, Rat(0, 1))
          /\ ret' = qubit_index_to_gate_and_index(self.comps, index)
    /\ UNCHANGED <<pc, args, self, frame>>

ParallelGates_qubit_index_to_equivalence_group_key ==
    /\ Callable("ParallelGates")
    /\ \E index \in Indices :
          /\ call' = Call("qubit_index_to_equivalence_group_key", index, <<>>, FALSE, Rat(0, 1))
          /\ ret' = EquivalenceGroupKey(self.comps, index)
    /\ UNCHANGED <<pc, args, self, frame>>

ParallelGates_circuit_diagram_info ==
    /\ Callable("ParallelGates")
    /\ \E unicode \in BOOLEAN :
          /\ call' = Call("_circuit_diagram_info_", 0, <<>>, unicode, Rat(0, 1))
          /\ ret' = Result("wire_symbols", None, 0,
                           circuit_diagram_info(self.comps, unicode))
    /\ UNCHANGED <<pc, args, self, frame>>

\* _decompose_(qubits) of a generator function: the generator is created,
\* none of its body has run
ParallelGates_decompose ==
    /\ Callable("ParallelGates")
    /\ \E qubits \in QubitOrders(num_qubits(self)) :
          /\ call' = Call("_decompose_", 0, qubits, FALSE, Rat(0, 1))
          /\ frame' = Frame("ParallelGates._decompose_", 0, qubits)
    /\ ret' = Result("generator", None, 0, <<>>)
    /\ UNCHANGED <<pc, args, self>>

\* next() on the generator: it runs to its next yield, or to its end
ParallelGates_decompose_next ==
    /\ pc = "ready" /\ frame.fn = "ParallelGates._decompose_"
    /\ LET r == ParallelGatesResume(self.comps, frame.k, frame.qubits)
       IN  IF r.done
           THEN /\ frame' = NoFrame
                /\ ret' = Result("ops", None, 0, ret.seq)
           ELSE /\ frame' = Frame(frame.fn, r.k, r.qubits)
                /\ ret' = Result("generator", None, 0, Append(ret.seq, r.op))
    /\ UNCHANGED <<pc, args, self, call>>

FermionicSWAPGate_pow ==
    /\ Callable("FermionicSWAPGate")
    /\ \E exponent \in Exponents :
          /\ call' = Call("__pow__", 0, <<>>, FALSE, exponent)
          /\ ret' = FermionicSWAPGatePow(self, exponent)
    /\ UNCHANGED <<pc, args, self, frame>>

AceCR_decompose ==
    /\ Callable("AceCR")
    /\ \E qubits \in QubitOrders(2) :
          /\ call' = Call("_decompose_", 0, qubits, FALSE, Rat(0, 1))
          /\ frame' = Frame("AceCR._decompose_", 0, qubits)
    /\ ret' = Result("generator", None, 0, <<>>)
    /\ UNCHANGED <<pc, args, self>>

AceCR_decompose_next ==
    /\ pc = "ready" /\ frame.fn = "AceCR._decompose_"
    /\ IF frame.k = 3
       THEN /\ frame' = NoFrame
            /\ ret' = Result("ops", None, 0, ret.seq)
       ELSE /\ frame' = Frame(frame.fn, frame.k + 1, frame.qubits)
            /\ ret' = Result("generator", None, 0,
                  Append(ret.seq, AceCRYield(self.pol, frame.k + 1, frame.qubits)))
    /\ UNCHANGED <<pc, args, self, call>>

Barrier_decompose ==
    /\ Callable("Barrier")
    /\ \E qubits \in QubitOrders(num_qubits(self)) :
          /\ call' = Call("_decompose_", 0, qubits, FALSE, Rat(0, 1))
          /\ ret' = BarrierDecompose(self, qubits)
    /\ UNCHANGED <<pc, args, self, frame>>

\* a module-level function: it needs no object, and can be called before and
\* after the constructor, whenever control is with the caller (a constructor
\* that raised ends the run)
custom_resolver_call ==
    /\ pc \in {"new", "ready"} /\ frame = NoFrame
    /\ \E cirq_type \in TypeTags :
          /\ call' = CallWithType("custom_resolver", cirq_type, FALSE)
          /\ ret' = custom_resolver(cirq_type)
    /\ UNCHANGED <<pc, args, self, frame>>

\* the names of fields no class of this module has
UnknownFields == {{}, {"unknown_field"}}

\* _json_dict_() of any of the classes
Gate_json_dict ==
    /\ pc = "ready" /\ frame = NoFrame
    /\ call' = CallWithType("_json_dict_", self.kind, FALSE)
    /\ ret' = ReturnDict(json_dict(self))
    /\ UNCHANGED <<pc, args, self, frame>>

\* the exported mapping, with or without a field added to it, read back
Gate_from_json_dict ==
    /\ pc = "ready" /\ frame = NoFrame /\ ret.kind = "dict"
    /\ \E more \in UnknownFields :
          LET d == [ret.seq[1] EXCEPT !.keys = @ \cup more]
          IN  /\ call' = CallWithType("_from_json_dict_", d.cirq_type, more # {})
              /\ ret' = Reconstruct(d)
    /\ UNCHANGED <<pc, args, self, frame>>

Next ==
    \/ ParallelGates_init
    \/ FermionicSWAPGate_init
    \/ AceCR_init
    \/ Barrier_init
    \/ ParallelGates_qubit_index_to_gate_and_index
    \/ ParallelGates_qubit_index_to_equivalence_group_key
    \/ ParallelGates_circuit_diagram_info
    \/ ParallelGates_decompose
    \/ ParallelGates_decompose_next
    \/ FermionicSWAPGate_pow
    \/ AceCR_decompose
    \/ AceCR_decompose_next
    \/ Barrier_decompose
    \/ custom_resolver_call
    \/ Rphi_init
    \/ ParallelRphi_init
    \/ ZXPowGate_init
    \/ Gate_json_dict
    \/ Gate_from_json_dict

Spec == Init /\ [][Next]_vars

(***************************************************************************)
(* Notions the properties are stated with.                                 *)
(***************************************************************************)
\* the qubit indices of a composite
QubitIndices(gates) == 0..(SumQubits(gates) - 1)

\* the global index of the first qubit of the component at position k
Start(gates, k) == SumQubits(SubSeq(gates, 1, k - 1))

\* the positions of the components whose block of qubits holds index i
Owners(gates, i) ==
    {k \in 1..Len(gates) :
        Start(gates, k) <= i /\ i < Start(gates, k) + num_qubits(gates[k])}

Owner(gates, i) == CHOOSE k \in Owners(gates, i) : TRUE

RECURSIVE DecimalDigits(_)
\* the decimal digits of n >= 0, most significant first
DecimalDigits(n) ==
    IF n < 10 THEN <<n>> ELSE Append(DecimalDigits(n \div 10), n % 10)

\* "_N": an underscore and the digits "0".."9" of N
AsciiSuffix(N) ==
    <<95>> \o [d \in 1..Len(DecimalDigits(N)) |-> 48 + DecimalDigits(N)[d]]

\* N in subscript digits: SUBSCRIPT ZERO (U+2080) .. SUBSCRIPT NINE (U+2089)
SubscriptSuffix(N) ==
    [d \in 1..Len(DecimalDigits(N)) |-> 8320 + DecimalDigits(N)[d]]

KeyCalled ==
    /\ call.name = "qubit_index_to_equivalence_group_key"
    /\ ret.kind = "int"

(***************************************************************************)
(* C1.  Constructing a ParallelGates raises ValueError when some component *)
(* gate, at any position, is a measurement; otherwise it succeeds and      *)
(* stores exactly the given sequence, in the given order.                  *)
(***************************************************************************)
C1_MeasurementRejected ==
    (pc # "new" /\ args.cls = "ParallelGates") =>
        IF \E k \in DOMAIN args.gates : args.gates[k].kind = "MeasurementGate"
        THEN pc = "raised" /\ ret.kind = "ValueError" /\ self = None
        ELSE pc = "ready" /\ self.kind = "ParallelGates"
             /\ self.comps = args.gates

\* a single-qubit measurement between two Rphi gates was refused
C1_Witness ==
    /\ pc = "raised" /\ ret.kind = "ValueError"
    /\ args.gates = <<Rphi(0, 1), Measure(1), Rphi(1, 1)>>

(***************************************************************************)
(* C2.  The key of a qubit owned by a single-qubit component is the global *)
(* index of the first component equal to its owner; so two qubits owned by *)
(* single-qubit components have the same key iff their owners are equal.   *)
(***************************************************************************)
C2_SingleQubitKey ==
    KeyCalled =>
        LET gs == self.comps
            k == Owner(gs, call.i)
            first == CHOOSE f \in 1..k :
                        /\ gs[f] = gs[k]
                        /\ \A e \in 1..(f - 1) : gs[e] # gs[k]
        IN  num_qubits(gs[k]) = 1 =>
              /\ ret.int = Start(gs, first)
              /\ \A i2 \in QubitIndices(gs) :
                    num_qubits(gs[Owner(gs, i2)]) = 1 =>
                        ((EquivalenceGroupKey(gs, i2).int = ret.int)
                            <=> (gs[Owner(gs, i2)] = gs[k]))

\* ParallelGates(Rphi(0,1), Rphi(0,1)): qubit 1 has key 0
C2_Witness ==
    /\ KeyCalled
    /\ self.comps = <<Rphi(0, 1), Rphi(0, 1)>>
    /\ call.i = 1 /\ ret.int = 0

(***************************************************************************)
(* C3.  The key of the qubit at local index j of a multi-qubit component   *)
(* is i - j + m for the smallest m < j with the same local key as j,       *)
(* when the component has interchangeable qubits and such an m exists, and *)
(* i otherwise; qubits of different multi-qubit components never have the  *)
(* same key.                                                               *)
(***************************************************************************)
C3_MultiQubitKey ==
    KeyCalled =>
        LET gs == self.comps
            i == call.i
            k == Owner(gs, i)
            j == i - Start(gs, k)
            earlier == {m \in 0..(j - 1) : LocalKey(gs[k], m) = LocalKey(gs[k], j)}
        IN  num_qubits(gs[k]) # 1 =>
              /\ ret.int = IF IsInterchangeable(gs[k]) /\ earlier # {}
                           THEN i - j + Min(earlier)
                           ELSE i
              /\ \A i2 \in QubitIndices(gs) :
                    (Owner(gs, i2) # k /\ num_qubits(gs[Owner(gs, i2)]) # 1)
                        => EquivalenceGroupKey(gs, i2).int # ret.int

\* the last qubit of a nested ParallelGates(Rphi(0,1), Rphi(1,1), Rphi(0,1))
\* placed after a CR: local index 2 shares its key with local index 0
C3_Witness ==
    /\ KeyCalled
    /\ self.comps = <<CR, ParallelGatesGate(<<Rphi(0, 1), Rphi(1, 1), Rphi(0, 1)>>)>>
    /\ call.i = 4 /\ ret.int = 2

(***************************************************************************)
(* C4.  qubit_index_to_gate_and_index(i) returns, for 0 <= i < the qubit   *)
(* count, the one component whose block holds i and the index of i within  *)
(* that block; for every other i it raises ValueError.                     *)
(***************************************************************************)
C4_GateAndIndex ==
    call.name = "qubit_index_to_gate_and_index" =>
        LET gs == self.comps
            i == call.i
        IN  IF 0 <= i /\ i < SumQubits(gs)
            THEN /\ ret.kind = "gate_and_index"
                 /\ Cardinality(Owners(gs, i)) = 1
                 /\ ret.gate = gs[Owner(gs, i)]
                 /\ Start(gs, Owner(gs, i)) + ret.int = i
                 /\ 0 <= ret.int /\ ret.int < num_qubits(ret.gate)
            ELSE ret = ValueError

\* the index just past the last qubit is refused
C4_Witness ==
    /\ call.name = "qubit_index_to_gate_and_index"
    /\ self.comps = <<CR, ParallelGatesGate(<<>>), Rphi(1, 1)>>
    /\ call.i = 3 /\ ret.kind = "ValueError"

(***************************************************************************)
(* C5.  Decomposing a ParallelGates on as many qubits as it has yields one *)
(* operation per component, in order; the k-th applies the k-th component  *)
(* to the slice of qubits that follows the slices of the components before *)
(* it, so the slices, joined in order, are the given qubits.               *)
(***************************************************************************)
C5_Decompose ==
    (self.kind = "ParallelGates" /\ ret.kind \in {"generator", "ops"}) =>
        LET gs == self.comps
            ops == ret.seq
            RECURSIVE Joined(_)
            Joined(n) == IF n = 0 THEN <<>> ELSE Joined(n - 1) \o ops[n].qubits
        IN  /\ Len(ops) <= Len(gs)
            /\ \A k \in 1..Len(ops) :
                  /\ ops[k].gate = gs[k]
                  /\ ops[k].qubits =
                        SubSeq(call.qubits, Start(gs, k) + 1,
                               Start(gs, k) + num_qubits(gs[k]))
            /\ ret.kind = "ops" =>
                  /\ Len(ops) = Len(gs)
                  /\ Joined(Len(ops)) = call.qubits

\* a CR, a rotation and three parallel rotations decomposed on six qubits
\* given in descending order
C5_Witness ==
    /\ ret.kind = "ops"
    /\ self.comps = <<CR, Rphi(0, 1), ParallelRphi(0, 1, 3)>>
    /\ call.qubits = <<6, 5, 4, 3, 2, 1>>
    /\ ret.seq[3].qubits = <<3, 2, 1>>

(***************************************************************************)
(* C6.  In the wire symbols of a ParallelGates the component at position N *)
(* (from 1) carries the suffix "_N" in ASCII mode and N written in         *)
(* subscript digits in Unicode mode.                                       *)
(***************************************************************************)
C6_SuffixEncodesIndex ==
    (call.name = "_circuit_diagram_info_" /\ ret.kind = "wire_symbols") =>
        LET gs == self.comps
        IN  \A N \in 1..Len(gs) :
              \A w \in 1..num_qubits(gs[N]) :
                 ret.seq[Start(gs, N) + w].suffix =
                    WireSymbols(gs[N], call.flag)[w].suffix
                        \o (IF call.flag THEN SubscriptSuffix(N) ELSE AsciiSuffix(N))

(***************************************************************************)
(* C7.  AceCR accepts the polarities "+-" and "-+" only, and its           *)
(* decomposition on (q0, q1) is ZX**0.25 on (q0, q1), X on q0, ZX**-0.25   *)
(* on (q0, q1) for "+-", and the same with the two signs swapped for "-+". *)
(***************************************************************************)
C7_AceCR ==
    /\ (args.cls = "AceCR" /\ pc # "new") =>
          IF args.polarity \in {"+-", "-+"}
          THEN pc = "ready" /\ self = AceCRGate(args.polarity)
          ELSE pc = "raised" /\ self = None /\ ret.kind = "AssertionError"
    /\ (self.kind = "AceCR" /\ ret.kind \in {"generator", "ops"}) =>
          LET q == call.qubits
              s == IF self.pol = "+-" THEN 1 ELSE -1
              all == << Op(ZXPowGate(Rat(s, 4)), q),
                        Op(X, <<q[1]>>),
                        Op(ZXPowGate(Rat(-s, 4)), q) >>
          IN  /\ Len(ret.seq) <= 3
              /\ ret.seq = SubSeq(all, 1, Len(ret.seq))
              /\ ret.kind = "ops" => ret.seq = all

\* AceCR("-+") decomposed on (q2, q1)
C7_Witness ==
    /\ self = AceCRGate("-+") /\ ret.kind = "ops"
    /\ call.qubits = <<2, 1>>
    /\ ret.seq[1] = Op(ZXPowGate(Rat(-1, 4)), <<2, 1>>)

(***************************************************************************)
(* C8.  FermionicSWAPGate(theta) ** e is FermionicSWAPGate(e * theta) for  *)
(* e in {-1, 0, 1}, the gate itself unchanged, and NotImplemented for      *)
(* every other exponent.                                                   *)
(***************************************************************************)
C8_Pow ==
    call.name = "__pow__" =>
        LET e == call.exponent
        IN  /\ self = FermionicSWAPGateNew(args.theta)
            /\ IF \E v \in {-1, 0, 1} : e.num = v * e.den
               THEN \E v \in {-1, 0, 1} :
                       /\ e.num = v * e.den
                       /\ ret.kind = "gate"
                       /\ ret.gate = FermionicSWAPGateNew(v * args.theta)
               ELSE ret = NotImplemented

\* FermionicSWAPGate(3 pi) ** -1 is FermionicSWAPGate(pi)
C8_Witness ==
    /\ call.name = "__pow__" /\ call.exponent = Rat(-1, 1)
    /\ args.theta = 3 * Pi
    /\ ret.kind = "gate" /\ ret.gate.a = Pi

(***************************************************************************)
(* C9.  The angle a FermionicSWAPGate stores differs from the angle given  *)
(* by a multiple of 2 pi, and canonicalizing it again changes nothing.     *)
(* As claimed, it lies in (-pi, pi]:                                       *)
(***************************************************************************)
C9_HalfOpenInterval ==
    /\ self.kind = "FermionicSWAPGate" =>
          /\ -Pi < self.a /\ self.a <= Pi
          /\ (self.a - args.theta) % (2 * Pi) = 0
          /\ Canonicalize(self.a) = self.a
    /\ (self.kind = "FermionicSWAPGate" /\ ret.kind = "gate") =>
          /\ -Pi < ret.gate.a /\ ret.gate.a <= Pi
          /\ Canonicalize(ret.gate.a) = ret.gate.a

(***************************************************************************)
(* C9 as amended.  The stored angle lies in the closed interval [-pi, pi]: *)
(* -pi and +pi are both kept as they are.                                  *)
(***************************************************************************)
C9_ClosedInterval ==
    /\ self.kind = "FermionicSWAPGate" =>
          /\ -Pi <= self.a /\ self.a <= Pi
          /\ (self.a - args.theta) % (2 * Pi) = 0
          /\ Canonicalize(self.a) = self.a
    /\ (self.kind = "FermionicSWAPGate" /\ ret.kind = "gate") =>
          /\ -Pi <= ret.gate.a /\ ret.gate.a <= Pi
          /\ call.name = "__pow__" =>
                \E v \in {-1, 0, 1} :
                   /\ call.exponent.num = v * call.exponent.den
                   /\ (ret.gate.a - v * args.theta) % (2 * Pi) = 0
          /\ Canonicalize(ret.gate.a) = ret.gate.a

\* FermionicSWAPGate(pi) ** -1 stores -pi
C9_Witness ==
    /\ self.kind = "FermionicSWAPGate" /\ args.theta = Pi /\ self.a = Pi
    /\ call.exponent = Rat(-1, 1)
    /\ ret.kind = "gate" /\ ret.gate.a = -Pi

(***************************************************************************)
(* C10.  Barrier(n)._decompose_ returns NotImplemented, which is neither   *)
(* an empty nor any other sequence of operations.                          *)
(***************************************************************************)
C10_BarrierRefuses ==
    (self.kind = "Barrier" /\ call.name = "_decompose_") =>
        /\ ret = NotImplemented
        /\ ret.kind \notin {"ops", "generator"}
        /\ frame = NoFrame

\* Barrier(3) asked to decompose
C10_Witness ==
    /\ self = BarrierGate(3) /\ call.name = "_decompose_"
    /\ call.qubits = <<1, 2, 3>>
    /\ ret.kind = "NotImplemented"

(***************************************************************************)
(* C11.  custom_resolver returns, for the name of each of FermionicSWAPGate, *)
(* ZXPowGate, AceCR, Barrier, Rphi, ParallelRphi and ParallelGates, that   *)
(* class, and None for every other name; whatever was called before, the   *)
(* answer for a name is the same.  As claimed:                             *)
(***************************************************************************)
C11_OnlySevenVariants ==
    call.name = "custom_resolver" =>
        IF call.cirq_type \in {"FermionicSWAPGate", "ZXPowGate", "AceCR", "Barrier",
                               "Rphi", "ParallelRphi", "ParallelGates"}
        THEN ret = ReturnClass(call.cirq_type)
        ELSE ret = ReturnNone

(***************************************************************************)
(* C11 as amended.  The registry holds an eighth class, MSGate: the seven  *)
(* names and "MSGate" give their class, every other name gives None.       *)
(***************************************************************************)
C11_Resolver ==
    call.name = "custom_resolver" =>
        IF call.cirq_type \in {"FermionicSWAPGate", "ZXPowGate", "AceCR", "Barrier",
                               "Rphi", "ParallelRphi", "ParallelGates", "MSGate"}
        THEN ret = ReturnClass(call.cirq_type)
        ELSE ret = ReturnNone

\* a lookup of an unknown name made after other calls on a ParallelGates
C11_Witness ==
    /\ call.name = "custom_resolver" /\ call.cirq_type = "CZPowGate"
    /\ ret = ReturnNone
    /\ pc = "ready" /\ self.comps = <<CR, Rphi(0, 1)>>

(***************************************************************************)
(* C12.  A gate of any of the seven classes exported to its field mapping  *)
(* and read back through the class custom_resolver gives for its type tag  *)
(* is equal to the gate exported; a ParallelGates, whose components are    *)
(* exported and read back in turn and in order, also when the mapping      *)
(* holds a field it does not know.                                         *)
(***************************************************************************)
C12_RoundTrip ==
    /\ (call.name = "_json_dict_") =>
          /\ ret.kind = "dict"
          /\ ret.seq[1].cirq_type = self.kind
          /\ custom_resolver(self.kind) = ReturnClass(self.kind)
    /\ (call.name = "_from_json_dict_"
            /\ (~call.flag \/ self.kind = "ParallelGates")) =>
          /\ ret.kind = "gate"
          /\ ret.gate = self

\* a ParallelGates holding a nested ParallelGates read back from a mapping
\* with an unknown field
C12_Witness ==
    /\ call.name = "_from_json_dict_" /\ call.flag
    /\ self.comps = <<FermionicSWAPGateNew(1),
                      ParallelGatesGate(<<Rphi(0, 1), Rphi(1, 1), Rphi(0, 1)>>),
                      CR>>
    /\ ret.kind = "gate" /\ ret.gate = self

(***************************************************************************)
(* C13.  The key k of a valid qubit index i is itself a valid index, is at *)
(* most i, is the smallest index of its group (no index below k has key    *)
(* k) and is its own key; also when a component is a nested ParallelGates. *)
(***************************************************************************)
C13_KeyIsLeastOfGroup ==
    KeyCalled =>
        LET gs == self.comps
            k == ret.int
        IN  /\ k \in QubitIndices(gs)
            /\ k <= call.i
            /\ \A below \in 0..(k - 1) : EquivalenceGroupKey(gs, below).int # k
            /\ EquivalenceGroupKey(gs, k) = ReturnInt(k)

\* qubit 3 of ParallelGates(Rphi(0,1), ParallelGates(Rphi(0,1), Rphi(1,1),
\* Rphi(0,1)), Rphi(0,1)), the last qubit of the nested gate: its key is the
\* nested gate's first qubit, not the equal rotation on qubit 0
C13_Witness ==
    /\ KeyCalled
    /\ self.comps = <<Rphi(0, 1),
                      ParallelGatesGate(<<Rphi(0, 1), Rphi(1, 1), Rphi(0, 1)>>),
                      Rphi(0, 1)>>
    /\ call.i = 3 /\ ret.int = 1

=============================================================================
